---- MODULE Spec2Model ----
(***************************************************************************)
(* Index management client: UploadSection (upload, file list, indexing job *)
(* poller), App (index list, selection, persisted selection) and           *)
(* IndexRibbon (create, delete, capacity notice).                          *)
(***************************************************************************)
EXTENDS Integers, Sequences, FiniteSets, TLC

(***************************************************************************)
(* JavaScript values.  A scalar is [t, v]; v is always a string so that    *)
(* strict equality (===) is plain equality of records.                     *)
(***************************************************************************)
JUndef == [t |-> "undef", v |-> ""]
JNull == [t |-> "null", v |-> ""]
JTrue == [t |-> "bool", v |-> "true"]
JFalse == [t |-> "bool", v |-> "false"]
JStr(s) == [t |-> "str", v |-> s]
JNum(s) == [t |-> "num", v |-> s]
JArr(a, b) == [t |-> "arr", e0 |-> a, e1 |-> b]
JObj(n, ir, r) == [t |-> "obj", name |-> n, is_restricted |-> ir, restricted |-> r]

\* x ?? y
Nullish(x) == x.t \in {"undef", "null"}
Coalesce(x, y) == IF Nullish(x) THEN y ELSE x

\* Boolean(x)
ToBoolean(x) ==
  CASE x.t \in {"undef", "null"} -> FALSE
    [] x.t = "bool" -> x.v = "true"
    [] x.t = "str" -> x.v /= ""
    [] x.t = "num" -> x.v \notin {"0", "NaN"}
    [] OTHER -> TRUE

\* String(x) for the scalars the program converts
JsString(x) ==
  CASE x.t = "undef" -> "undefined"
    [] x.t = "null" -> "null"
    [] x.t \in {"bool", "str", "num"} -> x.v
    [] x.t = "arr" -> "[array]"
    [] OTHER -> "[object Object]"

\* s.trim() on the strings of the model
Trim(s) ==
  CASE s = " a " -> "a"
    [] s = " " -> ""
    [] OTHER -> s

\* s.toLowerCase() on the strings of the model
ToLowerCase(s) ==
  CASE s = "TRUE" -> "true"
    [] s = "True" -> "true"
    [] s = "A" -> "a"
    [] OTHER -> s

\* x.name, x.is_restricted, x.restricted: undefined on anything but an object
PropName(x) == IF x.t = "obj" THEN x.name ELSE JUndef
PropIsRestricted(x) == IF x.t = "obj" THEN x.is_restricted ELSE JUndef
PropRestricted(x) == IF x.t = "obj" THEN x.restricted ELSE JUndef

(***************************************************************************)
(* UploadSection.normalizeInputs                                           *)
(***************************************************************************)
FlagIsTrue(r) ==
  \/ r = JTrue
  \/ ToLowerCase(JsString(Coalesce(r, JStr("")))) = "true"
  \/ JsString(Coalesce(r, JStr(""))) = "1"

normalizeInputs(indexName, isRestricted) ==
  IF indexName.t = "arr"
  THEN [name |-> Trim(JsString(Coalesce(indexName.e0, JStr("")))),
        restricted |-> ToBoolean(indexName.e1)]
  ELSE IF indexName.t = "obj"
  THEN [name |-> Trim(JsString(Coalesce(indexName.name, JStr("")))),
        restricted |->
          \/ indexName.is_restricted = JTrue
          \/ indexName.restricted = JTrue
          \/ FlagIsTrue(Coalesce(indexName.is_restricted, indexName.restricted))]
  ELSE [name |-> Trim(JsString(Coalesce(indexName, JStr("")))),
        restricted |-> FlagIsTrue(isRestricted)]

(***************************************************************************)
(* UploadSection: state                                                    *)
(***************************************************************************)
VARIABLES
  mounted,           \* the component instance is mounted
  normalized,        \* normalizeInputs(indexName, isRestricted) of the props
  files, status, isIndexing, uploadProgress, isUploading, indexingProgress,
  pollTimer,         \* Null, or the interval with the index its callback closes over
  intervals,         \* how many intervals created by setInterval are not cleared
  lastFiles404,
  inflight,          \* requests in flight: request kind -> how many
  uploadTimers,      \* pending 700 ms timers of handleUpload
  jobFailed,         \* history: a failed poll result was applied since startIndexing ran
  jobCompleted,      \* history: completed poll results applied since startIndexing ran
  startedHere        \* history: startIndexing invoked since the last index change

uvars == <<mounted, normalized, files, status, isIndexing, uploadProgress, isUploading,
           indexingProgress, pollTimer, intervals, lastFiles404, inflight, uploadTimers,
           jobFailed, jobCompleted, startedHere>>

MaxInFlight == 2
MaxUploadTimers == 1

Null == [index |-> [name |-> "", restricted |-> FALSE], on |-> FALSE]
Interval(i) == [index |-> i, on |-> TRUE]

\* the props App passes: selectedIndex.name, selectedIndex.is_restricted
PropInputs ==
  { <<JStr("a"), JFalse>>, <<JStr("a"), JTrue>>, <<JStr("a"), JStr("true")>>,
    <<JUndef, JUndef>> }

Idx == { [name |-> "a", restricted |-> FALSE], [name |-> "a", restricted |-> TRUE] }

ReqKinds == [type : {"files", "upload", "status", "start"}, index : Idx]

Req(t, i) == [type |-> t, index |-> i]

RECURSIVE SumOver(_, _)
SumOver(b, S) ==
  IF S = {} THEN 0
  ELSE LET k == CHOOSE k \in S : TRUE IN b[k] + SumOver(b, S \ {k})

Total(b) == SumOver(b, ReqKinds)
Issue(b, k) == [b EXCEPT ![k] = @ + 1]
Deliver(b, k) == [b EXCEPT ![k] = @ - 1]
\* requests awaiting an answer and timers awaiting their time
Pending == Total(inflight) + uploadTimers
CanIssue == Pending < MaxInFlight

\* the backend's file list of an index
BackendFiles(i) == << [filename |-> "report.pdf", owner |-> i] >>

\* a state setter of an unmounted component does nothing
SetState(new, old) == IF mounted THEN new ELSE old

\* stopPolling leaving the interval as it is
stopPollingKeepsInterval(t) == t

\* stopPolling, on the interval held in pollTimer.current
stopPolling(t) == IF t.on THEN Null ELSE t

\* clearInterval(pollTimer.current): how many intervals stopPolling clears
Cleared(t) == IF stopPolling(t) = t THEN 0 ELSE 1

\* history: a poll result is applied to the mounted component
AfterPoll(h) == IF mounted /\ h /= "no" THEN "again" ELSE h

ButtonsEnabled == ~(isUploading \/ isIndexing) /\ normalized.name /= ""

UInit ==
  /\ mounted = TRUE
  /\ \E p \in PropInputs : normalized = normalizeInputs(p[1], p[2])
  /\ files = << >>
  /\ status = ""
  /\ isIndexing = FALSE
  /\ uploadProgress = 0
  /\ isUploading = FALSE
  /\ indexingProgress = 0
  /\ pollTimer = Null
  /\ intervals = 0
  /\ lastFiles404 = FALSE
  /\ inflight = [k \in ReqKinds |->
                   IF normalized.name /= "" /\ k = Req("files", normalized) THEN 1 ELSE 0]
  /\ uploadTimers = 0
  /\ jobFailed = FALSE
  /\ jobCompleted = "no"
  /\ startedHere = FALSE

(***************************************************************************)
(* UploadSection: the reset effect, the fetch effect and its cleanup       *)
(***************************************************************************)
\* the reset effect without setIndexingProgress(0)
IndexChangeKeepsProgress(p) ==
  LET n == normalizeInputs(p[1], p[2]) IN
  /\ mounted
  /\ n /= normalized
  /\ n.name /= "" => CanIssue
  /\ normalized' = n
  /\ files' = << >>
  /\ status' = ""
  /\ isIndexing' = FALSE
  /\ uploadProgress' = 0
  /\ isUploading' = FALSE
  /\ lastFiles404' = FALSE
  /\ pollTimer' = stopPolling(pollTimer)
  /\ intervals' = intervals - Cleared(pollTimer)
  /\ inflight' = IF n.name /= "" THEN Issue(inflight, Req("files", n)) ELSE inflight
  /\ jobFailed' = FALSE
  /\ jobCompleted' = "no"
  /\ startedHere' = FALSE
  /\ UNCHANGED <<mounted, indexingProgress, uploadTimers>>

\* the props change so that (safeIndexName, safeRestricted) changes
IndexChange(p) ==
  LET n == normalizeInputs(p[1], p[2]) IN
  /\ mounted
  /\ n /= normalized
  /\ n.name /= "" => CanIssue
  /\ normalized' = n
  /\ files' = << >>
  /\ status' = ""
  /\ isIndexing' = FALSE
  /\ uploadProgress' = 0
  /\ isUploading' = FALSE
  /\ indexingProgress' = 0
  /\ lastFiles404' = FALSE
  /\ pollTimer' = stopPolling(pollTimer)
  /\ intervals' = intervals - Cleared(pollTimer)
  /\ inflight' = IF n.name /= "" THEN Issue(inflight, Req("files", n)) ELSE inflight
  /\ jobFailed' = FALSE
  /\ jobCompleted' = "no"
  /\ startedHere' = FALSE
  /\ UNCHANGED <<mounted, uploadTimers>>

\* the component is torn down: the fetch effect's cleanup runs and the state of
\* the instance is discarded (the refs live on in the closures of its requests)
Unmount ==
  /\ mounted
  /\ mounted' = FALSE
  /\ pollTimer' = stopPolling(pollTimer)
  /\ intervals' = intervals - Cleared(pollTimer)
  /\ files' = << >>
  /\ status' = ""
  /\ isIndexing' = FALSE
  /\ uploadProgress' = 0
  /\ isUploading' = FALSE
  /\ indexingProgress' = 0
  /\ jobFailed' = FALSE
  /\ jobCompleted' = "no"
  /\ startedHere' = FALSE
  /\ UNCHANGED <<normalized, lastFiles404, inflight, uploadTimers>>

(***************************************************************************)
(* UploadSection.fetchFiles: the continuations after the fetch             *)
(***************************************************************************)
FilesOk(i) ==
  /\ inflight[Req("files", i)] > 0
  /\ inflight' = Deliver(inflight, Req("files", i))
  /\ lastFiles404' = FALSE
  /\ files' = SetState(BackendFiles(i), files)
  /\ UNCHANGED <<mounted, normalized, status, isIndexing, uploadProgress, isUploading,
                 indexingProgress, pollTimer, intervals, uploadTimers, jobFailed,
                 jobCompleted, startedHere>>

Files404(i) ==
  /\ inflight[Req("files", i)] > 0
  /\ inflight' = Deliver(inflight, Req("files", i))
  /\ lastFiles404' = TRUE
  /\ pollTimer' = stopPolling(pollTimer)
  /\ intervals' = intervals - Cleared(pollTimer)
  /\ files' = SetState(<< >>, files)
  /\ status' = SetState("Files endpoint not found. Backend route /files is missing for this index", status)
  /\ UNCHANGED <<mounted, normalized, isIndexing, uploadProgress, isUploading,
                 indexingProgress, uploadTimers, jobFailed, jobCompleted,
                 startedHere>>

\* a response that is neither 404 nor ok
FilesHttpError(i) ==
  /\ inflight[Req("files", i)] > 0
  /\ inflight' = Deliver(inflight, Req("files", i))
  /\ lastFiles404' = FALSE
  /\ files' = SetState(<< >>, files)
  /\ status' = SetState("Error loading files", status)
  /\ UNCHANGED <<mounted, normalized, isIndexing, uploadProgress, isUploading,
                 indexingProgress, pollTimer, intervals, uploadTimers, jobFailed,
                 jobCompleted, startedHere>>

\* fetch itself rejects
FilesNetworkError(i) ==
  /\ inflight[Req("files", i)] > 0
  /\ inflight' = Deliver(inflight, Req("files", i))
  /\ files' = SetState(<< >>, files)
  /\ status' = SetState(IF ~lastFiles404 THEN "Error loading files" ELSE status, status)
  /\ UNCHANGED <<mounted, normalized, isIndexing, uploadProgress, isUploading,
                 indexingProgress, pollTimer, intervals, lastFiles404, uploadTimers, jobFailed, jobCompleted, startedHere>>

(***************************************************************************)
(* UploadSection.handleUpload                                              *)
(***************************************************************************)
handleUpload ==
  /\ mounted
  /\ ButtonsEnabled
  /\ CanIssue
  /\ status' = "Uploading"
  /\ uploadProgress' = 0
  /\ isUploading' = TRUE
  /\ inflight' = Issue(inflight, Req("upload", normalized))
  /\ UNCHANGED <<mounted, normalized, files, isIndexing, indexingProgress, pollTimer, intervals,
                 lastFiles404, uploadTimers, jobFailed, jobCompleted, startedHere>>

UploadOk(i) ==
  /\ inflight[Req("upload", i)] > 0
  /\ uploadTimers < MaxUploadTimers
  /\ CanIssue
  /\ status' = SetState("Uploaded", status)
  /\ uploadProgress' = SetState(100, uploadProgress)
  /\ uploadTimers' = uploadTimers + 1
  /\ inflight' = Issue(Deliver(inflight, Req("upload", i)), Req("files", i))
  /\ UNCHANGED <<mounted, normalized, files, isIndexing, isUploading, indexingProgress,
                 pollTimer, intervals, lastFiles404, jobFailed, jobCompleted, startedHere>>

UploadFail(i) ==
  /\ inflight[Req("upload", i)] > 0
  /\ inflight' = Deliver(inflight, Req("upload", i))
  /\ status' = SetState("Upload failed. HTTP error status", status)
  /\ isUploading' = SetState(FALSE, isUploading)
  /\ UNCHANGED <<mounted, normalized, files, isIndexing, uploadProgress,
                 indexingProgress, pollTimer, intervals, lastFiles404, uploadTimers, jobFailed, jobCompleted, startedHere>>

\* the 700 ms timer set after a successful upload
UploadTimerFire ==
  /\ uploadTimers > 0
  /\ uploadTimers' = uploadTimers - 1
  /\ uploadProgress' = SetState(0, uploadProgress)
  /\ isUploading' = SetState(FALSE, isUploading)
  /\ UNCHANGED <<mounted, normalized, files, status, isIndexing, indexingProgress,
                 pollTimer, intervals, lastFiles404, inflight, jobFailed, jobCompleted,
                 startedHere>>

(***************************************************************************)
(* UploadSection.startIndexing                                             *)
(***************************************************************************)
\* the catch of startIndexing without setIsIndexing(false)
StartFailKeepsIndexing(k) ==
  /\ k.type = "start"
  /\ inflight[k] > 0
  /\ inflight' = Deliver(inflight, k)
  /\ status' = SetState("Indexing failed HTTP error status", status)
  /\ pollTimer' = stopPolling(pollTimer)
  /\ intervals' = intervals - Cleared(pollTimer)
  /\ UNCHANGED <<mounted, normalized, files, isIndexing, uploadProgress, isUploading,
                 indexingProgress, lastFiles404, uploadTimers, jobFailed,
                 jobCompleted, startedHere>>

startIndexing ==
  /\ mounted
  /\ IF normalized.name = ""
     THEN UNCHANGED uvars
     ELSE /\ ButtonsEnabled
          /\ CanIssue
          /\ isIndexing' = TRUE
          /\ status' = "Starting indexing"
          /\ indexingProgress' = 0
          /\ inflight' = Issue(inflight, Req("start", normalized))
          /\ jobFailed' = FALSE
          /\ jobCompleted' = "no"
          /\ startedHere' = TRUE
          /\ UNCHANGED <<mounted, normalized, files, uploadProgress, isUploading,
                         pollTimer, intervals, lastFiles404, uploadTimers>>

\* the begin-indexing request succeeded: the backend has accepted the job
StartOk(k) ==
  /\ k.type = "start"
  /\ inflight[k] > 0
  /\ inflight' = Deliver(inflight, k)
  /\ status' = SetState("Indexing started", status)
  /\ pollTimer' = Interval(k.index)
  /\ intervals' = intervals - Cleared(pollTimer) + 1
  /\ UNCHANGED <<mounted, normalized, files, isIndexing, uploadProgress, isUploading,
                 indexingProgress, lastFiles404, uploadTimers, jobFailed, jobCompleted,
                 startedHere>>

StartFail(k) ==
  /\ k.type = "start"
  /\ inflight[k] > 0
  /\ inflight' = Deliver(inflight, k)
  /\ status' = SetState("Indexing failed HTTP error status", status)
  /\ isIndexing' = SetState(FALSE, isIndexing)
  /\ pollTimer' = stopPolling(pollTimer)
  /\ intervals' = intervals - Cleared(pollTimer)
  /\ UNCHANGED <<mounted, normalized, files, uploadProgress, isUploading,
                 indexingProgress, lastFiles404, uploadTimers, jobFailed,
                 jobCompleted, startedHere>>

(***************************************************************************)
(* The interval and UploadSection.checkIndexingStatus                      *)
(***************************************************************************)
\* the interval fires: checkIndexingStatus issues its fetch
TimerTick ==
  /\ pollTimer.on
  /\ CanIssue
  /\ inflight' = Issue(inflight, Req("status", pollTimer.index))
  /\ UNCHANGED <<mounted, normalized, files, status, isIndexing, uploadProgress,
                 isUploading, indexingProgress, pollTimer, intervals, lastFiles404, uploadTimers, jobFailed, jobCompleted, startedHere>>

StatusCompleted(k) ==
  /\ k.type = "status"
  /\ inflight[k] > 0
  /\ status' = SetState("Indexing completed successfully", status)
  /\ isIndexing' = SetState(FALSE, isIndexing)
  /\ indexingProgress' = SetState(100, indexingProgress)
  /\ pollTimer' = stopPolling(pollTimer)
  /\ intervals' = intervals - Cleared(pollTimer)
  /\ inflight' = Issue(Deliver(inflight, k), Req("files", k.index))
  /\ jobCompleted' = IF ~mounted THEN jobCompleted
                     ELSE IF jobCompleted = "no" THEN "once" ELSE "again"
  /\ UNCHANGED <<mounted, normalized, files, uploadProgress, isUploading, lastFiles404,
                 uploadTimers, jobFailed, startedHere>>

StatusFailed(k) ==
  /\ k.type = "status"
  /\ inflight[k] > 0
  /\ status' = SetState("Indexing failed unknown error", status)
  /\ isIndexing' = SetState(FALSE, isIndexing)
  /\ pollTimer' = stopPolling(pollTimer)
  /\ intervals' = intervals - Cleared(pollTimer)
  /\ inflight' = Deliver(inflight, k)
  /\ jobFailed' = mounted
  /\ jobCompleted' = AfterPoll(jobCompleted)
  /\ UNCHANGED <<mounted, normalized, files, uploadProgress, isUploading,
                 indexingProgress, lastFiles404, uploadTimers, startedHere>>

\* the progress a response reports: absent (0) or a value
ProgressVals == {0, 45}

StatusInProgress(k, p) ==
  /\ k.type = "status"
  /\ inflight[k] > 0
  /\ inflight' = Deliver(inflight, k)
  /\ status' = SetState("Indexing in progress", status)
  /\ indexingProgress' = SetState(p, indexingProgress)
  /\ jobCompleted' = AfterPoll(jobCompleted)
  /\ UNCHANGED <<mounted, normalized, files, isIndexing, uploadProgress, isUploading,
                 pollTimer, intervals, lastFiles404, uploadTimers, jobFailed,
                 startedHere>>

\* the last branch of checkIndexingStatus also resetting the progress
StatusOtherResetsProgress(k) ==
  /\ k.type = "status"
  /\ inflight[k] > 0
  /\ inflight' = Deliver(inflight, k)
  /\ status' = SetState("Indexing not started", status)
  /\ indexingProgress' = SetState(0, indexingProgress)
  /\ jobCompleted' = AfterPoll(jobCompleted)
  /\ UNCHANGED <<mounted, normalized, files, isIndexing, uploadProgress, isUploading,
                 pollTimer, intervals, lastFiles404, uploadTimers, jobFailed, startedHere>>

StatusOther(k) ==
  /\ k.type = "status"
  /\ inflight[k] > 0
  /\ inflight' = Deliver(inflight, k)
  /\ status' = SetState("Indexing not started", status)
  /\ jobCompleted' = AfterPoll(jobCompleted)
  /\ UNCHANGED <<mounted, normalized, files, isIndexing, uploadProgress, isUploading,
                 indexingProgress, pollTimer, intervals, lastFiles404, uploadTimers, jobFailed, startedHere>>

\* the catch of checkIndexingStatus without stopPolling()
StatusErrorKeepsPolling(k) ==
  /\ k.type = "status"
  /\ inflight[k] > 0
  /\ inflight' = Deliver(inflight, k)
  /\ status' = SetState("Error checking indexing status", status)
  /\ isIndexing' = SetState(FALSE, isIndexing)
  /\ UNCHANGED <<pollTimer, intervals>>
  /\ jobCompleted' = AfterPoll(jobCompleted)
  /\ UNCHANGED <<mounted, normalized, files, uploadProgress, isUploading,
                 indexingProgress, lastFiles404, uploadTimers, jobFailed, startedHere>>

\* the status fetch rejects or answers with a non-2xx status
StatusError(k) ==
  /\ k.type = "status"
  /\ inflight[k] > 0
  /\ inflight' = Deliver(inflight, k)
  /\ status' = SetState("Error checking indexing status", status)
  /\ isIndexing' = SetState(FALSE, isIndexing)
  /\ pollTimer' = stopPolling(pollTimer)
  /\ intervals' = intervals - Cleared(pollTimer)
  /\ jobCompleted' = AfterPoll(jobCompleted)
  /\ UNCHANGED <<mounted, normalized, files, uploadProgress, isUploading,
                 indexingProgress, lastFiles404, uploadTimers, jobFailed, startedHere>>



(***************************************************************************)
(* IndexRibbon.normalizeIndexEntry                                         *)
(***************************************************************************)
\* normalizeIndexEntry with the flag negated
normalizeIndexEntryNegated(entry) ==
  IF entry.t = "arr"
  THEN [name |-> JsString(Coalesce(entry.e0, JStr(""))),
        restricted |-> ~ToBoolean(entry.e1)]
  ELSE IF entry.t = "obj"
  THEN [name |-> JsString(Coalesce(entry.name, JStr(""))),
        restricted |-> ~ToBoolean(Coalesce(entry.is_restricted, entry.restricted))]
  ELSE [name |-> JsString(Coalesce(entry, JStr(""))), restricted |-> TRUE]

normalizeIndexEntry(entry) ==
  IF entry.t = "arr"
  THEN [name |-> JsString(Coalesce(entry.e0, JStr(""))),
        restricted |-> ToBoolean(entry.e1)]
  ELSE IF entry.t = "obj"
  THEN [name |-> JsString(Coalesce(entry.name, JStr(""))),
        restricted |-> ToBoolean(Coalesce(entry.is_restricted, entry.restricted))]
  ELSE [name |-> JsString(Coalesce(entry, JStr(""))), restricted |-> FALSE]

JBool(b) == IF b THEN JTrue ELSE JFalse

(***************************************************************************)
(* The two normalizers applied to wire values, and again to their results  *)
(***************************************************************************)
VARIABLES
  wire,              \* the value given as entry / indexName
  flagArg,           \* the value given as isRestricted
  entryOuts,         \* results of normalizeIndexEntry: of wire, then of each result
  inputsOuts         \* results of normalizeInputs: of wire, then of each result

nvars == <<wire, flagArg, entryOuts, inputsOuts>>

MaxPasses == 2

WireNames == { JStr("alpha"), JStr(" a "), JUndef }

FlagValues ==
  { JTrue, JFalse, JStr("true"), JStr("TRUE"), JStr("1"), JStr("false"), JStr("yes"),
    JStr(""), JNum("1"), JNum("0"), JUndef, JNull }

\* the accepted wire shapes: pair, record with either flag name (or both), scalar
\* name with the flag given apart
WireInputs ==
  { <<JArr(n, f), JUndef>> : n \in WireNames, f \in FlagValues } \cup
  { <<JObj(n, f, JUndef), JUndef>> : n \in WireNames, f \in FlagValues } \cup
  { <<JObj(n, JUndef, f), JUndef>> : n \in WireNames, f \in FlagValues } \cup
  { <<JObj(n, JFalse, JTrue), JUndef>> : n \in WireNames } \cup
  { <<n, f>> : n \in WireNames, f \in FlagValues }

\* the object { name, restricted } a normalizer returns
AsWire(rec) == JObj(JStr(rec.name), JUndef, JBool(rec.restricted))

Last(seq) == seq[Len(seq)]

NInit ==
  /\ \E w \in WireInputs : wire = w[1] /\ flagArg = w[2]
  /\ entryOuts = << >>
  /\ inputsOuts = << >>

\* the normalizers' variables while a component is observed
NIdle ==
  /\ wire = JUndef
  /\ flagArg = JUndef
  /\ entryOuts = << >>
  /\ inputsOuts = << >>

ApplyNormalizeIndexEntry ==
  /\ Len(entryOuts) < MaxPasses
  /\ entryOuts' = Append(entryOuts,
       normalizeIndexEntry(IF entryOuts = << >> THEN wire ELSE AsWire(Last(entryOuts))))
  /\ UNCHANGED <<wire, flagArg, inputsOuts>>

ApplyNormalizeInputs ==
  /\ Len(inputsOuts) < MaxPasses
  /\ inputsOuts' = Append(inputsOuts,
       normalizeInputs(IF inputsOuts = << >> THEN wire ELSE AsWire(Last(inputsOuts)),
                       flagArg))
  /\ UNCHANGED <<wire, flagArg, entryOuts>>

(***************************************************************************)
(* App and IndexRibbon: state                                              *)
(***************************************************************************)
VARIABLES
  indexes,           \* App: the in-memory list, entries as fetchIndexes left them
  selectedIndex,     \* App: JNull or the selected entry
  lastUsedIndex,     \* localStorage: the text under the key lastUsedIndex
  isLoading, hasLoadedBefore,
  errorMessage,      \* IndexRibbon
  fetches,           \* GET /indexes requests in flight
  creates,           \* POST /indexes requests in flight
  deletes,           \* DELETE requests in flight, each with the outcome of the test that the
                     \* onDeleteIndex it closed over makes on its selectedIndex
  lastOp             \* history: what the last step ran, of the operations observed

avars == <<indexes, selectedIndex, lastUsedIndex, isLoading, hasLoadedBefore,
           errorMessage, fetches, creates, deletes, lastOp>>

MAX_INDEXES == 7
MaxFetches == 2
MaxCreates == 2
MaxDeletes == 1

CapacityNotice == "Maximum number of indexes (7) reached."
CreateFailed == "Failed to create index. Please try again."

\* localStorage text: nothing stored, text that is no JSON, or the JSON of a value
Absent == [kind |-> "absent", value |-> JNull]
Garbage == [kind |-> "garbage", value |-> JNull]
\* JSON.stringify: undefined gives no JSON text, an undefined array element is
\* written as null, an undefined property is left out
NullIfUndef(x) == IF x.t = "undef" THEN JNull ELSE x
JSONstringify(v) ==
  IF v.t = "undef" THEN Garbage
  ELSE IF v.t = "arr"
  THEN [kind |-> "json", value |-> JArr(NullIfUndef(v.e0), NullIfUndef(v.e1))]
  ELSE [kind |-> "json", value |-> v]
JSONparse(text) == [ok |-> text.kind = "json", value |-> text.value]

\* GET /indexes answers: lists of entries in the wire shapes
Alpha == JStr("alpha")
Beta == JStr("beta")
ListPairs == << JArr(Alpha, JFalse), JArr(Alpha, JTrue) >>
ListRecords == << JObj(Beta, JFalse, JUndef), JObj(Alpha, JUndef, JTrue) >>
ListStrings == << JStr("beta") >>
ListFull ==
  << JObj(Alpha, JFalse, JUndef), JObj(JStr("i2"), JFalse, JUndef),
     JObj(JStr("i3"), JFalse, JUndef), JObj(JStr("i4"), JFalse, JUndef),
     JObj(JStr("i5"), JFalse, JUndef), JObj(JStr("i6"), JFalse, JUndef),
     JObj(JStr("i7"), JFalse, JUndef) >>
\* one entry more than MAX_INDEXES: the backend created an index the client did
\* not count (a second create request in flight, another client)
ListOver == Append(ListFull, JObj(JStr("i8"), JFalse, JUndef))
ServerLists == { << >>, ListPairs, ListRecords, ListStrings, ListFull, ListOver }

\* the entries the user clicks on (to select or to delete) are those of these names
ClickedNames == {"alpha", "beta"}

\* what the browser may hold under lastUsedIndex when the page loads
StoredAtLoad ==
  { Absent, Garbage, JSONstringify(JObj(Alpha, JTrue, JUndef)),
    JSONstringify(JArr(Alpha, JFalse)) }

\* fetchIndexes: array entries become { name, is_restricted }
MapWire(l) ==
  [j \in 1..Len(l) |-> IF l[j].t = "arr" THEN JObj(l[j].e0, l[j].e1, JUndef) ELSE l[j]]

\* App, the selection effect: the value given to setSelectedIndex
AsRecord(x) == IF x.t = "arr" THEN JObj(x.e0, x.e1, JUndef) ELSE x
EntryName(x) == IF x.t = "arr" THEN x.e0 ELSE PropName(x)
EntryFlag(x) == IF x.t = "arr" THEN x.e1 ELSE PropIsRestricted(x)

\* indexes.find(...): the position of the first match, 0 for none, -1 when reading
\* a property of a null entry throws before a match is found
FindIndex(list, name, flag) ==
  LET hits == {j \in 1..Len(list) :
                 Nullish(list[j]) \/ (EntryName(list[j]) = name /\ EntryFlag(list[j]) = flag)}
      j == CHOOSE j \in hits : \A h \in hits : j <= h
  IN IF hits = {} THEN 0 ELSE IF Nullish(list[j]) THEN -1 ELSE j

RestoreSelection(list, text) ==
  LET parsed == JSONparse(text)
      first == AsRecord(list[1])
  IN IF text.kind = "absent" THEN first
     ELSE IF ~parsed.ok \/ Nullish(parsed.value) THEN first
     ELSE LET j == FindIndex(list, EntryName(parsed.value), EntryFlag(parsed.value))
          IN IF j > 0 /\ ToBoolean(list[j]) THEN AsRecord(list[j]) ELSE first

SelectionRuns(list, sel) == Len(list) > 0 /\ ~ToBoolean(sel)

SelectionEffect(list, sel, text) ==
  IF SelectionRuns(list, sel) THEN RestoreSelection(list, text) ELSE sel

\* IndexRibbon, the capacity effect
CapacityEffect(list) == IF Len(list) >= MAX_INDEXES THEN CapacityNotice ELSE ""

\* IndexRibbon is rendered
RibbonShown == ~(isLoading /\ ~hasLoadedBefore)

\* history: the selection algorithm ran in the step that set these
RanSelection(list, sel) == IF SelectionRuns(list, sel) THEN "select" ELSE ""

AInit ==
  /\ indexes = << >>
  /\ selectedIndex = JNull
  /\ lastUsedIndex \in StoredAtLoad
  /\ isLoading = TRUE
  /\ hasLoadedBefore = FALSE
  /\ errorMessage = ""
  /\ fetches = 2
  /\ creates = 0
  /\ deletes = {}
  /\ lastOp = ""

\* the App state while only UploadSection is observed
AIdle ==
  /\ indexes = << >>
  /\ selectedIndex = JNull
  /\ lastUsedIndex = Absent
  /\ isLoading = FALSE
  /\ hasLoadedBefore = TRUE
  /\ errorMessage = ""
  /\ fetches = 0
  /\ creates = 0
  /\ deletes = {}
  /\ lastOp = ""

\* the UploadSection state while only App and IndexRibbon are observed
UIdle ==
  /\ mounted = FALSE
  /\ normalized = [name |-> "", restricted |-> FALSE]
  /\ files = << >>
  /\ status = ""
  /\ isIndexing = FALSE
  /\ uploadProgress = 0
  /\ isUploading = FALSE
  /\ indexingProgress = 0
  /\ pollTimer = Null
  /\ intervals = 0
  /\ lastFiles404 = FALSE
  /\ inflight = [k \in ReqKinds |-> 0]
  /\ uploadTimers = 0
  /\ jobFailed = FALSE
  /\ jobCompleted = "no"
  /\ startedHere = FALSE

(***************************************************************************)
(* App.fetchIndexes: the continuations after the fetch                     *)
(***************************************************************************)
\* setIndexes(list) and the effects that follow the render
SetIndexes(list) ==
  /\ indexes' = list
  /\ selectedIndex' = SelectionEffect(list, selectedIndex, lastUsedIndex)
  /\ lastOp' = RanSelection(list, selectedIndex)
  /\ errorMessage' = CapacityEffect(list)

\* the answer holds data.indexes
FetchIndexesOk(l) ==
  /\ fetches > 0
  /\ fetches' = fetches - 1
  /\ SetIndexes(MapWire(l))
  /\ hasLoadedBefore' = TRUE
  /\ isLoading' = FALSE
  /\ UNCHANGED <<lastUsedIndex, creates, deletes>>

\* a non-2xx answer with a JSON body: data.indexes is undefined
FetchIndexesHttpError ==
  /\ fetches > 0
  /\ fetches' = fetches - 1
  /\ indexes' = << >>
  /\ selectedIndex' = SelectionEffect(<< >>, selectedIndex, lastUsedIndex)
  /\ lastOp' = "httpError"
  /\ errorMessage' = CapacityEffect(<< >>)
  /\ hasLoadedBefore' = TRUE
  /\ isLoading' = FALSE
  /\ UNCHANGED <<lastUsedIndex, creates, deletes>>

\* fetch or response.json() rejects
FetchIndexesFail ==
  /\ fetches > 0
  /\ fetches' = fetches - 1
  /\ isLoading' = FALSE
  /\ lastOp' = ""
  /\ UNCHANGED <<indexes, selectedIndex, lastUsedIndex, hasLoadedBefore, errorMessage,
                 creates, deletes>>

\* UploadSection calls onFilesChange, which is fetchIndexes
onFilesChange ==
  /\ ToBoolean(selectedIndex)
  /\ fetches < MaxFetches
  /\ fetches' = fetches + 1
  /\ lastOp' = ""
  /\ UNCHANGED <<indexes, selectedIndex, lastUsedIndex, isLoading, hasLoadedBefore,
                 errorMessage, creates, deletes>>

(***************************************************************************)
(* App.handleSelectIndex, reached from a click on entry j of the ribbon    *)
(***************************************************************************)
\* handleSelectIndex without localStorage.setItem
handleSelectIndexUnpersisted(index) ==
  LET n == AsRecord(index) IN
  /\ selectedIndex' = n
  /\ UNCHANGED lastUsedIndex

handleSelectIndex(index) ==
  LET n == AsRecord(index) IN
  /\ selectedIndex' = n
  /\ lastUsedIndex' = JSONstringify(n)

ClickIndex(j) ==
  LET idx == normalizeIndexEntry(indexes[j]) IN
  /\ RibbonShown
  /\ j \in 1..Len(indexes)
  /\ idx.name \in ClickedNames
  /\ handleSelectIndex(JObj(JStr(idx.name), JBool(idx.restricted), JUndef))
  /\ lastOp' = "click"
  /\ UNCHANGED <<indexes, isLoading, hasLoadedBefore, errorMessage, fetches, creates,
                 deletes>>

(***************************************************************************)
(* IndexRibbon.handleDeleteIndex and App.handleDeleteIndex                 *)
(***************************************************************************)
\* App.handleDeleteIndex: the selection it closed over is the deleted pair
ClosureIsDeleted(sel, indexName, isRestricted) ==
  /\ ToBoolean(sel)
  /\ PropName(sel) = indexName
  /\ PropIsRestricted(sel) = isRestricted

\* the delete button of entry j: the request is sent once the user confirms
ClickDelete(j) ==
  LET idx == normalizeIndexEntry(indexes[j])
      name == Trim(idx.name)
  IN
  /\ RibbonShown
  /\ j \in 1..Len(indexes)
  /\ idx.name \in ClickedNames
  /\ name /= ""
  /\ Cardinality(deletes) < MaxDeletes
  /\ deletes' = deletes \cup
       {[name |-> name, restricted |-> idx.restricted,
         closureHit |-> ClosureIsDeleted(selectedIndex, JStr(name), JBool(idx.restricted))]}
  /\ lastOp' = ""
  /\ UNCHANGED <<indexes, selectedIndex, lastUsedIndex, isLoading, hasLoadedBefore,
                 errorMessage, fetches, creates>>

\* App.handleDeleteIndex: the entries that stay in the list
FilterDeleted(list, indexName, isRestricted) ==
  SelectSeq(list, LAMBDA e : ~(EntryName(e) = indexName /\ EntryFlag(e) = isRestricted))

\* the DELETE request succeeded: onDeleteIndex(name, restricted)
DeleteOk(d) ==
  LET indexName == JStr(d.name)
      isRestricted == JBool(d.restricted)
      list == FilterDeleted(indexes, indexName, isRestricted)
      hit == d.closureHit
      sel == IF hit THEN JNull ELSE selectedIndex
      text == IF hit THEN Absent ELSE lastUsedIndex
  IN
  /\ d \in deletes
  /\ deletes' = deletes \ {d}
  /\ indexes' = list
  /\ lastUsedIndex' = text
  /\ selectedIndex' = SelectionEffect(list, sel, text)
  /\ lastOp' = RanSelection(list, sel)
  /\ errorMessage' = CapacityEffect(list)
  /\ UNCHANGED <<isLoading, hasLoadedBefore, fetches, creates>>

DeleteFail(d) ==
  /\ d \in deletes
  /\ deletes' = deletes \ {d}
  /\ lastOp' = ""
  /\ UNCHANGED <<indexes, selectedIndex, lastUsedIndex, isLoading, hasLoadedBefore,
                 errorMessage, fetches, creates>>

(***************************************************************************)
(* IndexRibbon.handleCreateIndex                                           *)
(***************************************************************************)
\* what the name field may hold when the form is submitted
NewIndexNames == {"", " ", "new"}

\* handleCreateIndex without the capacity check
handleCreateIndexUnchecked(newIndexName) ==
  LET name == ToLowerCase(Trim(newIndexName)) IN
  /\ RibbonShown
  /\ lastOp' = IF name = "" THEN "createEmpty" ELSE "create"
  /\ IF name = ""
     THEN UNCHANGED <<errorMessage, creates>>
     ELSE /\ creates < MaxCreates
          /\ creates' = creates + 1
          /\ UNCHANGED errorMessage
  /\ UNCHANGED <<indexes, selectedIndex, lastUsedIndex, isLoading, hasLoadedBefore,
                 fetches, deletes>>

handleCreateIndex(newIndexName) ==
  LET name == ToLowerCase(Trim(newIndexName)) IN
  /\ RibbonShown
  /\ lastOp' = IF name = "" THEN "createEmpty" ELSE "create"
  /\ IF name = ""
     THEN UNCHANGED <<errorMessage, creates>>
     ELSE IF Len(indexes) >= MAX_INDEXES
     THEN errorMessage' = CapacityNotice /\ UNCHANGED creates
     ELSE /\ creates < MaxCreates
          /\ creates' = creates + 1
          /\ UNCHANGED errorMessage
  /\ UNCHANGED <<indexes, selectedIndex, lastUsedIndex, isLoading, hasLoadedBefore,
                 fetches, deletes>>

\* the POST succeeded: onIndexesChange() issues a refresh
CreateOk ==
  /\ creates > 0
  /\ fetches < MaxFetches
  /\ creates' = creates - 1
  /\ fetches' = fetches + 1
  /\ errorMessage' = ""
  /\ lastOp' = ""
  /\ UNCHANGED <<indexes, selectedIndex, lastUsedIndex, isLoading, hasLoadedBefore,
                 deletes>>

CreateFail ==
  /\ creates > 0
  /\ creates' = creates - 1
  /\ errorMessage' = CreateFailed
  /\ lastOp' = ""
  /\ UNCHANGED <<indexes, selectedIndex, lastUsedIndex, isLoading, hasLoadedBefore,
                 fetches, deletes>>

(***************************************************************************)
(* The two specifications: each component is observed with the other idle  *)
(***************************************************************************)
UNext ==
  \/ \E p \in PropInputs : IndexChange(p) /\ UNCHANGED <<avars, nvars>>
  \/ Unmount /\ UNCHANGED <<avars, nvars>>
  \/ \E i \in Idx : FilesOk(i) /\ UNCHANGED <<avars, nvars>>
  \/ \E i \in Idx : Files404(i) /\ UNCHANGED <<avars, nvars>>
  \/ \E i \in Idx : FilesHttpError(i) /\ UNCHANGED <<avars, nvars>>
  \/ \E i \in Idx : FilesNetworkError(i) /\ UNCHANGED <<avars, nvars>>
  \/ handleUpload /\ UNCHANGED <<avars, nvars>>
  \/ \E i \in Idx : UploadOk(i) /\ UNCHANGED <<avars, nvars>>
  \/ \E i \in Idx : UploadFail(i) /\ UNCHANGED <<avars, nvars>>
  \/ UploadTimerFire /\ UNCHANGED <<avars, nvars>>
  \/ startIndexing /\ UNCHANGED <<avars, nvars>>
  \/ \E k \in ReqKinds : StartOk(k) /\ UNCHANGED <<avars, nvars>>
  \/ \E k \in ReqKinds : StartFail(k) /\ UNCHANGED <<avars, nvars>>
  \/ TimerTick /\ UNCHANGED <<avars, nvars>>
  \/ \E k \in ReqKinds : StatusCompleted(k) /\ UNCHANGED <<avars, nvars>>
  \/ \E k \in ReqKinds : StatusFailed(k) /\ UNCHANGED <<avars, nvars>>
  \/ \E k \in ReqKinds, p \in ProgressVals : StatusInProgress(k, p) /\ UNCHANGED <<avars, nvars>>
  \/ \E k \in ReqKinds : StatusOther(k) /\ UNCHANGED <<avars, nvars>>
  \/ \E k \in ReqKinds : StatusError(k) /\ UNCHANGED <<avars, nvars>>

\* one index session: the steps of UploadSection while the props stay as they are
SessionNext ==
  \/ Unmount /\ UNCHANGED <<avars, nvars>>
  \/ \E i \in Idx : FilesOk(i) /\ UNCHANGED <<avars, nvars>>
  \/ \E i \in Idx : Files404(i) /\ UNCHANGED <<avars, nvars>>
  \/ \E i \in Idx : FilesHttpError(i) /\ UNCHANGED <<avars, nvars>>
  \/ \E i \in Idx : FilesNetworkError(i) /\ UNCHANGED <<avars, nvars>>
  \/ handleUpload /\ UNCHANGED <<avars, nvars>>
  \/ \E i \in Idx : UploadOk(i) /\ UNCHANGED <<avars, nvars>>
  \/ \E i \in Idx : UploadFail(i) /\ UNCHANGED <<avars, nvars>>
  \/ UploadTimerFire /\ UNCHANGED <<avars, nvars>>
  \/ startIndexing /\ UNCHANGED <<avars, nvars>>
  \/ \E k \in ReqKinds : StartOk(k) /\ UNCHANGED <<avars, nvars>>
  \/ \E k \in ReqKinds : StartFail(k) /\ UNCHANGED <<avars, nvars>>
  \/ TimerTick /\ UNCHANGED <<avars, nvars>>
  \/ \E k \in ReqKinds : StatusCompleted(k) /\ UNCHANGED <<avars, nvars>>
  \/ \E k \in ReqKinds : StatusFailed(k) /\ UNCHANGED <<avars, nvars>>
  \/ \E k \in ReqKinds, p \in ProgressVals : StatusInProgress(k, p) /\ UNCHANGED <<avars, nvars>>
  \/ \E k \in ReqKinds : StatusOther(k) /\ UNCHANGED <<avars, nvars>>
  \/ \E k \in ReqKinds : StatusError(k) /\ UNCHANGED <<avars, nvars>>

ANext ==
  \/ \E l \in ServerLists : FetchIndexesOk(l) /\ UNCHANGED <<uvars, nvars>>
  \/ FetchIndexesHttpError /\ UNCHANGED <<uvars, nvars>>
  \/ FetchIndexesFail /\ UNCHANGED <<uvars, nvars>>
  \/ onFilesChange /\ UNCHANGED <<uvars, nvars>>
  \/ \E j \in 1..Len(indexes) : ClickIndex(j) /\ UNCHANGED <<uvars, nvars>>
  \/ \E j \in 1..Len(indexes) : ClickDelete(j) /\ UNCHANGED <<uvars, nvars>>
  \/ \E d \in deletes : DeleteOk(d) /\ UNCHANGED <<uvars, nvars>>
  \/ \E d \in deletes : DeleteFail(d) /\ UNCHANGED <<uvars, nvars>>
  \/ \E n \in NewIndexNames : handleCreateIndex(n) /\ UNCHANGED <<uvars, nvars>>
  \/ CreateOk /\ UNCHANGED <<uvars, nvars>>
  \/ CreateFail /\ UNCHANGED <<uvars, nvars>>

NNext ==
  \/ ApplyNormalizeIndexEntry /\ UNCHANGED <<uvars, avars>>
  \/ ApplyNormalizeInputs /\ UNCHANGED <<uvars, avars>>

vars == <<uvars, avars, nvars>>

InitUpload == UInit /\ AIdle /\ NIdle

SpecUpload == InitUpload /\ [][UNext]_vars

SpecSession == InitUpload /\ [][SessionNext]_vars

InitApp == AInit /\ UIdle /\ NIdle

SpecApp == InitApp /\ [][ANext]_vars

InitNormalize == NInit /\ UIdle /\ AIdle

SpecNormalize == InitNormalize /\ [][NNext]_vars

(***************************************************************************)
(* Properties of UploadSection, checked under SpecUpload                   *)
(***************************************************************************)
\* a response of checkIndexingStatus's fetch for request kind k is applied
StatusApplied(k) ==
  \/ StatusCompleted(k)
  \/ StatusFailed(k)
  \/ \E p \in ProgressVals : StatusInProgress(k, p)
  \/ StatusOther(k)
  \/ StatusError(k)

\* C1: once the completed response of a started job has been processed, the
\* poller is at isIndexing = false, indexingProgress = 100, the interval is
\* cancelled (so no poll is issued), the job has triggered exactly one file
\* refresh and no further poll result has been applied.
C1_PollingTermination ==
  jobCompleted /= "no" =>
    /\ jobCompleted = "once"
    /\ ~isIndexing
    /\ indexingProgress = 100
    /\ ~pollTimer.on

\* C2: processing a failed response records the failure message, issues no
\* file-list fetch and no status poll; from then on, until startIndexing is
\* invoked again, isIndexing is false, no interval is active and no status poll
\* is issued.
C2_FailedStopsPolling ==
  /\ [](jobFailed => ~isIndexing /\ ~pollTimer.on)
  /\ [][\A k \in ReqKinds : (mounted /\ StatusFailed(k)) =>
          /\ status' = "Indexing failed unknown error"
          /\ \A i \in Idx : /\ inflight'[Req("files", i)] = inflight[Req("files", i)]
                             /\ inflight'[Req("status", i)] <= inflight[Req("status", i)]]_vars
  /\ [][(jobFailed /\ jobFailed') => \A i \in Idx :
          inflight'[Req("status", i)] <= inflight[Req("status", i)]]_vars

\* C3: after a change of the active index or a teardown, no interval is active
\* until startIndexing is invoked for the new index.
C3_NoIntervalAfterChange == ~startedHere => ~pollTimer.on

\* the response of a status poll or start request issued before a cancellation:
\* after a teardown or a change of index, or a poll with no interval left
Late(k) ==
  /\ k.type \in {"status", "start"}
  /\ \/ ~mounted
     \/ k.index /= normalized
     \/ k.type = "status" /\ ~pollTimer.on

\* C4: a late response of a status poll or start request changes neither status
\* nor indexingProgress nor isIndexing.
C4_LateResponsesIgnored ==
  [][\A k \in ReqKinds :
       (Late(k) /\ (StatusApplied(k) \/ StartOk(k) \/ StartFail(k))) =>
         UNCHANGED <<status, indexingProgress, isIndexing>>]_vars

\* C5: the file list shown holds files of the active index only, and the response
\* of a file-list fetch or upload issued for another index writes neither files
\* nor status.
C5_NoStaleFiles ==
  /\ [](\A j \in 1..Len(files) : files[j].owner = normalized)
  /\ [][\A i \in Idx :
         (/\ i /= normalized
          /\ \/ FilesOk(i) \/ Files404(i) \/ FilesHttpError(i) \/ FilesNetworkError(i)
             \/ UploadOk(i) \/ UploadFail(i)) =>
           UNCHANGED <<files, status>>]_vars

(***************************************************************************)
(* Properties of App and IndexRibbon, checked under SpecApp                *)
(***************************************************************************)
\* the (name, restricted) pair of a delete request
DeletedPair(d) == [name |-> d.name, restricted |-> d.restricted]

\* C6: a non-null selectedIndex has the same (name, restricted) pair as some
\* entry of the current index list.
C6_SelectionInList ==
  selectedIndex /= JNull =>
    \E j \in 1..Len(indexes) :
      normalizeIndexEntry(indexes[j]) = normalizeIndexEntry(selectedIndex)

\* C7: when the selection algorithm has run (selection null, list non-empty): if
\* the persisted value parses and its normalized pair is the pair of some list
\* entry, such an entry is selected; otherwise list[0] is selected; the selection
\* is not left null.
C7_RestoreSelection ==
  lastOp = "select" =>
    LET parsed == JSONparse(lastUsedIndex)
        matches == IF parsed.ok /\ ~Nullish(parsed.value)
                   THEN {j \in 1..Len(indexes) :
                           normalizeIndexEntry(indexes[j]) = normalizeIndexEntry(parsed.value)}
                   ELSE {}
    IN /\ selectedIndex /= JNull
       /\ IF matches /= {}
          THEN \E j \in matches : selectedIndex = AsRecord(indexes[j])
          ELSE selectedIndex = AsRecord(indexes[1])

\* C8: when a delete of the pair that is the current selection succeeds, the
\* selection is cleared (it is null afterwards, or the selection algorithm has
\* run from null) and the persisted entry is removed.
C8_DeleteClearsSelection ==
  [][\A d \in deletes :
       (/\ DeleteOk(d)
        /\ selectedIndex /= JNull
        /\ normalizeIndexEntry(selectedIndex) = DeletedPair(d)) =>
         /\ lastUsedIndex' = Absent
         /\ selectedIndex' = JNull \/ lastOp' = "select"]_vars

\* C9: a successful delete removes from the list exactly the entries whose
\* normalized pair is the deleted pair, the others staying in their order.
C9_DeleteRemovesPair ==
  [][\A d \in deletes :
       DeleteOk(d) =>
         indexes' = SelectSeq(indexes, LAMBDA e : normalizeIndexEntry(e) /= DeletedPair(d))]_vars

C13_NormalizeIdempotent ==
  /\ \A j \in 2..Len(entryOuts) : entryOuts[j] = entryOuts[j - 1]
  /\ \A j \in 2..Len(inputsOuts) : inputsOuts[j] = inputsOuts[j - 1]

C13_Witness ==
  /\ Len(entryOuts) >= 2
  /\ Len(inputsOuts) >= 2
  /\ wire = JObj(JStr(" a "), JUndef, JStr("TRUE"))

\* the flag value a wire shape carries
FlagOfWire ==
  IF wire.t = "arr" THEN wire.e1
  ELSE IF wire.t = "obj" THEN Coalesce(wire.is_restricted, wire.restricted)
  ELSE flagArg

\* the flag values that stand for true: boolean true, "true" in any case, "1"
FlagStandsForTrue(f) ==
  \/ f = JTrue
  \/ f.t = "str" /\ ToLowerCase(f.v) = "true"
  \/ f = JStr("1")

\* C14: the restricted result of a normalizer is true exactly when the flag value
\* of the wire shape is boolean true, "true" in any case or "1" (a bare string
\* given to normalizeIndexEntry carries no flag), and false for every other value.
C14_FlagCoercion ==
  /\ Len(entryOuts) >= 1 =>
       entryOuts[1].restricted =
         (wire.t \in {"arr", "obj"} /\ FlagStandsForTrue(FlagOfWire))
  /\ Len(inputsOuts) >= 1 =>
       inputsOuts[1].restricted = FlagStandsForTrue(FlagOfWire)

(***************************************************************************)
(* Further properties of App and IndexRibbon, checked under SpecApp        *)
(***************************************************************************)
\* C11: the client's index list never has more than MAX_INDEXES entries.
C11_ListWithinCapacity == Len(indexes) <= MAX_INDEXES

\* C15: after an explicit selection (a click on an entry of the ribbon), the
\* persisted text parses to the very record held as the selection, and that record
\* is the { name, is_restricted } record of an entry of the list.
C15_SelectionPersisted ==
  lastOp = "click" =>
    /\ JSONparse(lastUsedIndex).ok
    /\ JSONparse(lastUsedIndex).value = selectedIndex
    /\ selectedIndex.t = "obj"
    /\ \E j \in 1..Len(indexes) :
         /\ normalizeIndexEntry(indexes[j]) = normalizeIndexEntry(selectedIndex)
         /\ selectedIndex = JObj(JStr(normalizeIndexEntry(indexes[j]).name),
                                 JBool(normalizeIndexEntry(indexes[j]).restricted), JUndef)

C15_Witness == lastOp = "click" /\ selectedIndex = JObj(Alpha, JTrue, JUndef)

\* C16: a refresh that fails, the request not completing or the backend answering
\* a non-2xx status, leaves the index list as it was, and isLoading is false once
\* a refresh has ended, whatever its outcome.
C16_FailedRefreshKeepsList ==
  /\ [][(FetchIndexesFail \/ FetchIndexesHttpError) => indexes' = indexes]_vars
  /\ [][(FetchIndexesFail \/ FetchIndexesHttpError \/ \E l \in ServerLists : FetchIndexesOk(l))
          => ~isLoading']_vars

(***************************************************************************)
(* Further properties of UploadSection, checked under SpecUpload           *)
(***************************************************************************)
\* C12: a 404 answer of the files endpoint for the active index sets a status
\* message other than "Error loading files"; from then on (lastFiles404 set), as
\* long as the active index stays, no file-list fetch is issued for it.
C12_DegradedMode ==
  /\ [][(mounted /\ normalized \in Idx /\ Files404(normalized)) =>
          /\ status' /= "Error loading files"
          /\ status' /= ""
          /\ lastFiles404']_vars
  /\ [][(mounted /\ lastFiles404 /\ normalized \in Idx /\ normalized' = normalized) =>
          inflight'[Req("files", normalized)] <= inflight[Req("files", normalized)]]_vars

\* upload requests in flight, of every index
UploadsInFlight == SumOver(inflight, {k \in ReqKinds : k.type = "upload"})

\* C17: a mounted UploadSection has at most one upload request in flight, and
\* while one is in flight isUploading is true (the Upload button is disabled).
C17_OneUploadInFlight ==
  mounted => UploadsInFlight <= 1 /\ (UploadsInFlight > 0 => isUploading)

\* C18: at most one interval is active, and it is the one pollTimer.current
\* holds, so that the stopPolling before every setInterval cancels it.
C18_OneInterval == intervals <= 1 /\ intervals = (IF pollTimer.on THEN 1 ELSE 0)

\* an interval created by the start response of another index, after a poll of
\* the active index's interval was applied
C18_Witness ==
  /\ mounted /\ intervals = 1 /\ pollTimer.on
  /\ pollTimer.index /= normalized
  /\ indexingProgress = 45
  /\ status = "Indexing started"

\* C19: startIndexing changes nothing when no index is active; otherwise it sets
\* isIndexing, resets indexingProgress to 0 and issues the begin-indexing request.
\* A failed request sets isIndexing false, reports an error status and leaves no
\* interval active; a successful one creates the interval.
C19_StartIndexing ==
  /\ [][(startIndexing /\ normalized.name = "") => UNCHANGED uvars]_vars
  /\ [][(startIndexing /\ normalized.name /= "") =>
          /\ isIndexing' /\ indexingProgress' = 0
          /\ inflight'[Req("start", normalized)] = inflight[Req("start", normalized)] + 1]_vars
  /\ [][\A k \in ReqKinds : (mounted /\ StartFail(k)) =>
          /\ ~isIndexing'
          /\ status' = "Indexing failed HTTP error status"
          /\ ~pollTimer'.on /\ intervals' = 0]_vars
  /\ [][\A k \in ReqKinds : StartOk(k) => pollTimer'.on /\ intervals' = 1]_vars

C19_Witness ==
  /\ mounted /\ status = "Indexing failed HTTP error status"
  /\ ~isIndexing /\ ~pollTimer.on /\ startedHere

\* C20: a poll whose status fetch fails records an error status, cancels the
\* interval and sets isIndexing false, which enables startIndexing again unless an
\* upload is running.
C20_PollErrorStops ==
  [][\A k \in ReqKinds : (mounted /\ StatusError(k)) =>
       /\ status' = "Error checking indexing status"
       /\ ~pollTimer'.on /\ intervals' = 0
       /\ ~isIndexing'
       /\ (~isUploading' /\ normalized'.name /= "") => ButtonsEnabled']_vars

C20_Witness ==
  /\ mounted /\ status = "Error checking indexing status"
  /\ ~isIndexing /\ ~pollTimer.on /\ startedHere

\* C21: a poll response whose status is none of completed, failed, in_progress
\* sets the status message and changes nothing else of the component: isIndexing,
\* indexingProgress and the interval are as before; a response with status
\* in_progress sets indexingProgress to the progress it reports (0 when it reports
\* none) and leaves isIndexing and the interval as before.
C21_PollKeepsPolling ==
  /\ [][\A k \in ReqKinds : (mounted /\ StatusOther(k)) =>
          /\ status' = "Indexing not started"
          /\ UNCHANGED <<indexingProgress, isIndexing, pollTimer, intervals, files,
                         uploadProgress, isUploading, lastFiles404>>
          /\ \A q \in ReqKinds : inflight'[q] <= inflight[q]]_vars
  /\ [][\A k \in ReqKinds, p \in ProgressVals : (mounted /\ StatusInProgress(k, p)) =>
          /\ indexingProgress' = p
          /\ UNCHANGED <<isIndexing, pollTimer, intervals>>]_vars

\* both responses were applied while the job is polled
C21_Witness ==
  /\ mounted /\ isIndexing /\ pollTimer.on /\ intervals = 1
  /\ status = "Indexing not started"
  /\ indexingProgress = 45

\* C22: a file-list fetch that ends in a non-success status other than 404, or in
\* a network error, clears the file list, sets the status "Error loading files",
\* leaves the interval as it is and does not set lastFiles404.
C22_TransientFilesError ==
  [][\A i \in Idx : (mounted /\ (FilesHttpError(i) \/ FilesNetworkError(i))) =>
       /\ files' = << >>
       /\ status' = "Error loading files"
       /\ UNCHANGED <<pollTimer, intervals>>
       /\ lastFiles404' => lastFiles404]_vars

\* C23: while an upload request of a mounted component is in flight, isUploading
\* is true and uploadProgress is 0; its success sets uploadProgress to 100 and
\* issues exactly one file-list fetch; its failure sets the failure status and
\* isUploading false.
C23_UploadLifecycle ==
  /\ [](mounted => (UploadsInFlight > 0 => isUploading /\ uploadProgress = 0))
  /\ [][\A i \in Idx : (mounted /\ UploadOk(i)) =>
          /\ uploadProgress' = 100
          /\ inflight'[Req("files", i)] = inflight[Req("files", i)] + 1
          /\ \A j \in Idx \ {i} : inflight'[Req("files", j)] = inflight[Req("files", j)]]_vars
  /\ [][\A i \in Idx : (mounted /\ UploadFail(i)) =>
          /\ status' = "Upload failed. HTTP error status"
          /\ ~isUploading']_vars

(***************************************************************************)
(* Further properties of App and IndexRibbon, checked under SpecApp        *)
(***************************************************************************)
\* C24: whenever the list has MAX_INDEXES or more entries and no create request is
\* in flight, errorMessage is the capacity notice; and a step that changes the
\* list to fewer than MAX_INDEXES entries leaves errorMessage empty.
C24_CapacityNotice ==
  /\ []((Len(indexes) >= MAX_INDEXES /\ creates = 0) => errorMessage = CapacityNotice)
  /\ [][(indexes' /= indexes /\ Len(indexes') < MAX_INDEXES) => errorMessage' = ""]_vars

(***************************************************************************)
(* Further properties of UploadSection, checked under SpecUpload           *)
(***************************************************************************)
\* C25: the step in which the active (name, restricted) pair changes leaves the
\* component reset: files empty, status empty, isIndexing and isUploading false,
\* uploadProgress and indexingProgress 0, lastFiles404 false and no interval
\* active; the only request it issues is the file-list fetch of the new index,
\* when that index has a name.
C25_ResetOnIndexChange ==
  [][\A p \in PropInputs : IndexChange(p) =>
       /\ normalized' = normalizeInputs(p[1], p[2])
       /\ files' = << >> /\ status' = ""
       /\ ~isIndexing' /\ ~isUploading'
       /\ uploadProgress' = 0 /\ indexingProgress' = 0
       /\ ~lastFiles404'
       /\ ~pollTimer'.on /\ intervals' = 0
       /\ \A k \in ReqKinds :
            inflight'[k] = inflight[k] +
              (IF k = Req("files", normalized') /\ normalized'.name /= "" THEN 1 ELSE 0)]_vars

\* the index was changed while a job was polled with progress shown: a poll of the
\* former index is still in flight and nothing has answered since the change
C25_Witness ==
  /\ mounted /\ ~startedHere /\ status = "" /\ files = << >>
  /\ indexingProgress = 0 /\ ~isIndexing /\ ~pollTimer.on
  /\ normalized \in Idx
  /\ inflight[Req("files", normalized)] > 0
  /\ \E i \in Idx \ {normalized} : inflight[Req("status", i)] > 0

\* start and status requests in flight, of every index
StartsInFlight == SumOver(inflight, {k \in ReqKinds : k.type = "start"})
PollsInFlight == SumOver(inflight, {k \in ReqKinds : k.type = "status"})

\* C26: whenever isIndexing is true and the begin-indexing request has been
\* answered (none is in flight; a failed one would have set isIndexing false),
\* an interval is active or a status poll is in flight; and no step other than the
\* answer of a status poll cancels the interval while leaving isIndexing true.
C26_IndexingIsPolled ==
  /\ []((mounted /\ isIndexing /\ StartsInFlight = 0) => (pollTimer.on \/ PollsInFlight > 0))
  /\ [][(mounted' /\ isIndexing /\ isIndexing' /\ pollTimer.on /\ ~pollTimer'.on) =>
          \E k \in ReqKinds : StatusApplied(k)]_vars

(***************************************************************************)
(* Properties of one index session, checked under SpecSession              *)
(***************************************************************************)
\* C27: while the active index stays as it is, startIndexing is not triggered
\* with an upload request in flight, an upload is not submitted while isIndexing
\* is true, and no upload request is in flight together with a begin-indexing
\* request or an active interval.
C27_UploadExcludesIndexing ==
  /\ [][(startIndexing /\ normalized.name /= "") => UploadsInFlight = 0]_vars
  /\ [][handleUpload => ~isIndexing]_vars
  /\ [](mounted => ~(UploadsInFlight > 0 /\ (StartsInFlight > 0 \/ pollTimer.on)))

(***************************************************************************)
(* Further properties of the normalizers, checked under SpecNormalize      *)
(***************************************************************************)
\* C28: for every wire shape that is an index reference by itself (a pair, a
\* record, or a bare name with no flag given apart), normalizeIndexEntry and
\* normalizeInputs give the same (name, restricted) pair, and the name and flag
\* that App reads inline from the entry are the name and flag of that pair.
C28_NormalizersAgree ==
  (/\ Len(entryOuts) >= 1 /\ Len(inputsOuts) >= 1
   /\ ~Nullish(wire)
   /\ wire.t \in {"arr", "obj"} \/ Nullish(flagArg)) =>
    /\ entryOuts[1] = inputsOuts[1]
    /\ EntryName(wire) = JStr(entryOuts[1].name)
    /\ EntryFlag(wire) = JBool(entryOuts[1].restricted)

(***************************************************************************)
(* Further properties of App and IndexRibbon, checked under SpecApp        *)
(***************************************************************************)
\* no request of App or IndexRibbon is in flight
Quiescent == fetches = 0 /\ creates = 0 /\ deletes = {}

\* C29: in a quiescent state with a non-empty list the selection is not null; and
\* when the delete of the pair that is the current selection succeeds, entries
\* remain and the state is quiescent, the selection is the first entry of the
\* list and nothing is persisted.
C29_SelectionResolved ==
  /\ []((Quiescent /\ Len(indexes) > 0) => selectedIndex /= JNull)
  /\ [][\A d \in deletes :
          (/\ DeleteOk(d)
           /\ selectedIndex /= JNull
           /\ normalizeIndexEntry(selectedIndex) = DeletedPair(d)
           /\ Len(indexes') > 0
           /\ Quiescent') =>
            /\ selectedIndex' = AsRecord(indexes'[1])
            /\ lastUsedIndex' = Absent]_vars

====
